---- MODULE Spec2Model ----
(***************************************************************************)
(* The rate-limiting request scheduler of brave-search-rate-limited.js:    *)
(* class RateLimiter (throttle / processQueue) and the brave_search tool   *)
(* handler that awaits it before calling the downstream API.               *)
(*                                                                         *)
(* JavaScript runs one callback at a time.  An action below is one         *)
(* run-to-completion segment: a throttle() call up to the first await of   *)
(* the drain loop, a timer callback up to the next await, or the           *)
(* continuation of a tool handler after its admission promise resolved.   *)
(* The clock is Date.now() in model ticks; it is assumed monotonic and a   *)
(* timer never fires before its due time, but it may fire late.  Within    *)
(* one segment of the drain loop Date.now() returns one value.             *)
(***************************************************************************)
EXTENDS Integers, Sequences, FiniteSets, TLC

\* ------------------------------------------------------------------ bounds
MaxReq == 3        \* throttle() calls per behaviour
MaxClock == 4      \* the clock stops advancing here once no timer is pending
MaxCancel == 1     \* withdrawals per behaviour
MaxOther == 2      \* throttle() calls on the second instance
MinDelay == 2      \* RATE_LIMIT_MS, in clock ticks

VARIABLES
    minDelay,      \* this.minDelay
    lastCallTime,  \* this.lastCallTime
    pending,       \* this.pending: queue of resolve callbacks (request numbers)
    processing,    \* this.processing
    clock,         \* Date.now()
    timers,        \* suspended processQueue invocations (await setTimeout)
    submitLog,     \* per throttle() call: when it was made and what it found
    resolved,      \* per request: how often its resolve callback was called
    dispatches,    \* the dispatches in order: request, time, and the time
                   \* its timer was due (its own time when it did not wait)
    waits,         \* the timed waits started, in order: request and waitTime
    fetches,       \* the downstream calls started, in order: request and time
    withdrawn,     \* per request: where it was when its caller withdrew
    results,       \* per request: the response to its downstream call and
                   \* what the handler returned for it
    other          \* a second RateLimiter instance: its fields, its timers
                   \* and the times of its dispatches

vars == <<minDelay, lastCallTime, pending, processing, clock, timers, submitLog,
          resolved, dispatches, waits, fetches, withdrawn, results, other>>

Requests == 1..MaxReq

submitted == Len(submitLog)

\* ------------------------------------------------- RateLimiter, line by line

\* constructor: any number is stored as it is given.
Construct(minDelayMs) ==
    [minDelay |-> minDelayMs, lastCallTime |-> 0, pending |-> <<>>,
     processing |-> FALSE]

\* line 26: this.pending.push(resolve)
Push(q, resolve) == Append(q, resolve)

\* a shift() confused with pop(): the newest entry is taken
ShiftNewest(q) ==
    [resolve |-> q[Len(q)], rest |-> SubSeq(q, 1, Len(q) - 1)]

\* the head is read, but the newest entry is the one removed
ShiftPeek(q) ==
    [resolve |-> Head(q), rest |-> SubSeq(q, 1, Len(q) - 1)]

\* line 42: const resolve = this.pending.shift()
Shift(q) ==
    [resolve |-> Head(q), rest |-> Tail(q)]

\* the check of the flag is inverted: no call gets past it
MayStartNever(flag) == flag

\* the check of line 35 left out
MayStartAlways(flag) == TRUE

\* line 35: if (this.processing) return
MayStart(flag) == ~flag

\* a wait also when exactly minDelay has elapsed
MustWaitInclusive(now, last, delay) == now - last <= delay

\* line 48: if (timeSinceLastCall < this.minDelay)
MustWait(now, last, delay) == now - last < delay

\* the wait is always the full delay
WaitTimeFull(now, last, delay) == delay

\* line 49: const waitTime = this.minDelay - timeSinceLastCall
WaitTime(now, last, delay) == delay - (now - last)

\* the time read before the wait is stored
StampStale(now, atDispatch) == now

\* line 55: this.lastCallTime = Date.now()  (a fresh reading)
Stamp(now, atDispatch) == atDispatch

\* lines 41-61: the while loop from a loop test up to the next await or to
\* the end of the loop.  t is what Date.now() returns throughout this
\* synchronous segment (lines 45 and 55).
RECURSIVE DrainWith(_, _, _, _)
DrainWith(delay, q, last, t) ==
    IF Len(q) = 0
    THEN [pending |-> q, lastCallTime |-> last, processing |-> FALSE,
          released |-> <<>>, timers |-> {}, waits |-> <<>>]
    ELSE LET s == Shift(q)
             now == t
         IN
         IF MustWait(now, last, delay)
         THEN LET waitTime == WaitTime(now, last, delay) IN
              [pending |-> s.rest, lastCallTime |-> last, processing |-> TRUE,
               released |-> <<>>,
               timers |-> {[resolve |-> s.resolve, now |-> now,
                            due |-> t + waitTime]},
               waits |-> <<[req |-> s.resolve, waitTime |-> waitTime]>>]
         ELSE LET r == DrainWith(delay, s.rest, Stamp(now, t), t) IN
              [r EXCEPT !.released =
                            <<[req |-> s.resolve, at |-> t, due |-> t]>> \o @]

\* the loop of this limiter, with this.minDelay
Drain(q, last, t) == DrainWith(minDelay, q, last, t)

\* how often request k is released in a segment
RECURSIVE Count(_, _)
Count(rel, k) ==
    IF rel = <<>> THEN 0
    ELSE (IF Head(rel).req = k THEN 1 ELSE 0) + Count(Tail(rel), k)

Resolve(rel) == [k \in Requests |-> resolved[k] + Count(rel, k)]

\* ------------------------------------------------------------ the handler

Fetched == {fetches[i].req : i \in 1..Len(fetches)}

\* the handler skips the await: it is past line 121 once it has called
\* throttle()
AdmittedOnSubmit(k) == k <= submitted

\* line 121: await rateLimiter.throttle() returns once the resolve callback
\* of the request was called (line 58)
Admitted(k) == resolved[k] > 0

\* A resolved admission promise runs its handler's continuation as a
\* microtask, before any timer or incoming request is served.
MicrotasksIdle == \A k \in Requests : resolved[k] > 0 => k \in Fetched

\* what fetch (line 129) can come back with: a rejection, or a response with
\* a status and a body: one that parses to data or to null or not at all, or
\* an error text that can be read or not
Responses ==
    {[kind |-> "rejects", status |-> 0, body |-> "cause"]}
    \cup {[kind |-> "response", status |-> 200, body |-> b] :
              b \in {"data", "null", "unparsable"}}
    \cup {[kind |-> "response", status |-> 429, body |-> "text"]}
    \cup {[kind |-> "response", status |-> 500, body |-> b] :
              b \in {"text", "unreadable"}}

NoResponse == [kind |-> "none", status |-> 0, body |-> "none"]

NoResult ==
    [response |-> NoResponse, isError |-> FALSE, message |-> "none",
     status |-> 0, detail |-> "none"]

\* response.ok
Ok(response) == response.status >= 200 /\ response.status <= 299

\* a 429 falls through to the general error branch, which throws
IsRateLimitNever(response) == FALSE

\* line 139: if (response.status === 429)
IsRateLimit(response) == response.status = 429

\* lines 175-186: catch (error): "Search error: " and the message of the
\* error, returned as an error result
Caught(message, status, detail) ==
    [isError |-> TRUE, message |-> message, status |-> status,
     detail |-> detail]

\* line 153: await response.text().catch(() => response.statusText)
ErrorText(response) ==
    IF response.body = "unreadable" THEN "statusText" ELSE response.body

\* lines 129-186: what the handler returns for a response
Handle(response) ==
    IF response.kind = "rejects"
    THEN Caught("Search error", 0, response.body)
    ELSE IF ~Ok(response)
         THEN IF IsRateLimit(response)
              THEN [isError |-> TRUE, message |-> "Rate Limit reached",
                    status |-> 0, detail |-> "none"]
              ELSE Caught("Search error: Brave API Error", response.status,
                          ErrorText(response))
         ELSE IF response.body = "unparsable"
              THEN Caught("Search error", 0, "json error")
         ELSE IF response.body = "null"
              THEN Caught("Search error", 0, "No data received")
              ELSE [isError |-> FALSE, message |-> "results", status |-> 0,
                    detail |-> response.body]

\* a rate-limit answer pushes lastCallTime forward (adaptive backoff)
FeedbackBackoff(result, rl) ==
    IF result.message = "Rate Limit reached"
    THEN [rl EXCEPT !.lastCallTime = clock]
    ELSE rl

\* lines 137-186 do not mention rateLimiter: the limiter is as it was
Feedback(result, rl) == rl

InQueue(k) == \E i \in 1..Len(pending) : pending[i] = k
Held(k) == \E t \in timers : t.resolve = k

\* --------------------------------------------------------------- actions

\* lines 16-21 run for a second instance, new RateLimiter(1): its fields,
\* its timers and the times of its dispatches
OtherInit ==
    LET rl == Construct(1) IN
    [minDelay |-> rl.minDelay, lastCallTime |-> rl.lastCallTime,
     pending |-> rl.pending, processing |-> rl.processing,
     timers |-> {}, submitted |-> 0, dispatches |-> <<>>]

\* a write of a field by another instance lands on that instance
ThisFieldShared(mine, written) == written

\* lines 17-20: the fields are properties of this; a write made through
\* another instance leaves the field of this instance as it is
ThisField(mine, written) == mine


InitWith(args) ==
    /\ \E minDelayMs \in args :
         LET rl == Construct(minDelayMs) IN
         /\ minDelay = rl.minDelay
         /\ lastCallTime = rl.lastCallTime
         /\ pending = rl.pending
         /\ processing = rl.processing
    /\ clock \in 0..MinDelay
    /\ timers = {}
    /\ submitLog = <<>>
    /\ resolved = [k \in Requests |-> 0]
    /\ dispatches = <<>>
    /\ waits = <<>>
    /\ fetches = <<>>
    /\ withdrawn = [k \in Requests |-> "no"]
    /\ results = [k \in Requests |-> NoResult]
    /\ other = OtherInit

\* the server as shipped passes a positive delay; zero is the documented
\* passthrough configuration
Init == InitWith({0, MinDelay})

\* lines 23-31 and the processQueue() call they make (lines 33-62)
Throttle ==
    /\ submitted < MaxReq
    /\ MicrotasksIdle
    /\ LET k == submitted + 1
          q == Push(pending, k)
          idle == Len(pending) = 0 /\ ~processing /\ timers = {}
      IN
      /\ submitLog' = Append(submitLog,
             [at |-> clock, idle |-> idle, elapsed |-> clock - lastCallTime,
              ahead |-> Len(pending) + Cardinality(timers)])
      /\ IF MayStart(processing)
         THEN LET r == Drain(q, lastCallTime, clock) IN
              /\ pending' = r.pending
              /\ lastCallTime' = r.lastCallTime
              /\ processing' = r.processing
              /\ timers' = timers \cup r.timers
              /\ waits' = waits \o r.waits
              /\ dispatches' = dispatches \o r.released
              /\ resolved' = Resolve(r.released)
         ELSE /\ pending' = q
              /\ UNCHANGED <<lastCallTime, processing, timers, waits,
                             dispatches, resolved>>
    /\ UNCHANGED <<minDelay, clock, fetches, withdrawn, results,
                   other>>

\* line 51 resumes: lines 55-58, then the loop again (lines 41-61)
TimerFires ==
    /\ MicrotasksIdle
    /\ \E t \in timers :
         /\ clock >= t.due
         /\ LET stamp == Stamp(t.now, clock)
                r == Drain(pending, stamp, clock)
                rel == <<[req |-> t.resolve, at |-> clock, due |-> t.due]>>
                       \o r.released
            IN
            /\ pending' = r.pending
            /\ lastCallTime' = r.lastCallTime
            /\ processing' = r.processing
            /\ timers' = (timers \ {t}) \cup r.timers
            /\ waits' = waits \o r.waits
            /\ dispatches' = dispatches \o rel
            /\ resolved' = Resolve(rel)
    /\ UNCHANGED <<minDelay, clock, submitLog, fetches, withdrawn, results,
                   other>>

\* lines 121-129: the handler continues after await rateLimiter.throttle()
\* and starts its downstream call
StartFetch ==
    /\ \E k \in Requests :
         /\ Admitted(k)
         /\ k \notin Fetched
         /\ fetches' = Append(fetches, [req |-> k, at |-> clock])
    /\ UNCHANGED <<minDelay, lastCallTime, pending, processing, clock, timers,
                   submitLog, resolved, dispatches, waits, withdrawn, results,
                   other>>

\* The caller of a request gives it up (its own deadline passed).  throttle()
\* hands out a promise with no reject path and keeps no handle, so nothing in
\* the limiter changes; only the fact is recorded.
Cancel ==
    /\ MicrotasksIdle
    /\ Cardinality({k \in Requests : withdrawn[k] # "no"}) < MaxCancel
    /\ \E k \in 1..submitted :
         /\ withdrawn[k] = "no"
         /\ withdrawn' = [withdrawn EXCEPT ![k] =
                IF InQueue(k) THEN "queued"
                ELSE IF Held(k) THEN "held" ELSE "dispatched"]
    /\ UNCHANGED <<minDelay, lastCallTime, pending, processing, clock, timers,
                   submitLog, resolved, dispatches, waits, fetches, results,
                   other>>

\* lines 129-186: the response to a downstream call arrives and the handler
\* returns its result
Respond ==
    /\ MicrotasksIdle
    /\ \E k \in Fetched, response \in Responses :
         /\ results[k] = NoResult
         /\ LET result == Handle(response)
                rl == Feedback(result,
                          [minDelay |-> minDelay, lastCallTime |-> lastCallTime,
                           pending |-> pending, processing |-> processing])
            IN
            /\ results' = [results EXCEPT ![k] =
                   [response |-> response, isError |-> result.isError,
                    message |-> result.message, status |-> result.status,
                    detail |-> result.detail]]
            /\ minDelay' = rl.minDelay
            /\ lastCallTime' = rl.lastCallTime
            /\ pending' = rl.pending
            /\ processing' = rl.processing
    /\ UNCHANGED <<clock, timers, submitLog, resolved, dispatches, waits,
                   fetches, withdrawn,
                   other>>

\* the times at which a segment admits requests
Times(rel) == [i \in 1..Len(rel) |-> rel[i].at]

\* lines 23-31 and 33-62 on the second instance
ThrottleOther ==
    /\ MicrotasksIdle
    /\ other.submitted < MaxOther
    /\ LET k == other.submitted + 1
           q == Push(other.pending, k)
       IN
       IF MayStart(other.processing)
       THEN LET r == DrainWith(other.minDelay, q, other.lastCallTime, clock) IN
            /\ other' = [other EXCEPT !.pending = r.pending,
                                      !.lastCallTime = r.lastCallTime,
                                      !.processing = r.processing,
                                      !.timers = r.timers,
                                      !.submitted = k,
                                      !.dispatches = @ \o Times(r.released)]
            /\ lastCallTime' = ThisField(lastCallTime, r.lastCallTime)
       ELSE /\ other' = [other EXCEPT !.pending = q, !.submitted = k]
            /\ lastCallTime' = lastCallTime
    /\ UNCHANGED <<minDelay, pending, processing, clock, timers, submitLog,
                   resolved, dispatches, waits, fetches, withdrawn, results>>

\* line 51 resumes on the second instance: lines 55-58, then its loop again
TimerFiresOther ==
    /\ MicrotasksIdle
    /\ \E t \in other.timers :
         /\ clock >= t.due
         /\ LET stamp == Stamp(t.now, clock)
                r == DrainWith(other.minDelay, other.pending, stamp, clock)
            IN
            /\ other' = [other EXCEPT !.pending = r.pending,
                                      !.lastCallTime = r.lastCallTime,
                                      !.processing = r.processing,
                                      !.timers = r.timers,
                                      !.dispatches = @ \o <<clock>>
                                                       \o Times(r.released)]
            /\ lastCallTime' = ThisField(lastCallTime, r.lastCallTime)
    /\ UNCHANGED <<minDelay, pending, processing, clock, timers, submitLog,
                   resolved, dispatches, waits, fetches, withdrawn, results>>

MayAdvance ==
    \/ clock < MaxClock
    \/ \E t \in timers : clock < t.due
    \/ \E t \in other.timers : clock < t.due

\* time passes while the event loop is between callbacks
Tick ==
    /\ MicrotasksIdle
    /\ MayAdvance
    /\ clock' = clock + 1
    /\ UNCHANGED <<minDelay, lastCallTime, pending, processing, timers,
                   submitLog, resolved, dispatches, waits, fetches, withdrawn,
                   results,
                   other>>

\* time passes between an admission (line 58) and the downstream call of the
\* admitted handler (line 129)
Stall ==
    /\ ~MicrotasksIdle
    /\ MayAdvance
    /\ clock' = clock + 1
    /\ UNCHANGED <<minDelay, lastCallTime, pending, processing, timers,
                   submitLog, resolved, dispatches, waits, fetches, withdrawn,
                   results,
                   other>>

Next == Throttle \/ TimerFires \/ StartFetch \/ Tick \/ Stall

Spec == Init /\ [][Next]_vars

\* timers fire, time passes and continuations run
Fairness ==
    /\ WF_vars(TimerFires)
    /\ WF_vars(Tick)
    /\ WF_vars(StartFetch)

FairSpec == Spec /\ Fairness

\* callers may withdraw; admitted handlers issue their call at once
NextCancel == Throttle \/ TimerFires \/ StartFetch \/ Tick \/ Cancel

SpecCancel == Init /\ [][NextCancel]_vars

\* lines 11 and 79: the server's own limiter, new RateLimiter(RATE_LIMIT_MS),
\* created when Date.now() is already past minDelay
InitServer ==
    /\ InitWith({MinDelay})
    /\ clock = MinDelay

\* downstream calls are answered; admitted handlers issue their call at once
NextDown == Throttle \/ TimerFires \/ StartFetch \/ Tick \/ Respond

SpecDown == InitServer /\ [][NextDown]_vars

\* two limiters in one process, each with its own callers
NextTwo ==
    \/ Throttle \/ TimerFires \/ StartFetch \/ Tick
    \/ ThrottleOther \/ TimerFiresOther

SpecTwo == InitServer /\ [][NextTwo]_vars

\* the constructor called with any number, negative ones included
InitAny == InitWith(-1..MinDelay)

SpecCtor == InitAny /\ [][Next]_vars

\* ---------------------------------------------------------------- claims

Dispatched == {dispatches[i].req : i \in 1..Len(dispatches)}

OnTime(i) == dispatches[i].at = dispatches[i].due

\* C1 (spacing): with a monotonic clock and timers that never fire early,
\* any two consecutive dispatches are at least minDelay apart, however the
\* throttle() calls interleave with the waits of the drain loop.
C1_Spacing ==
    \A i \in 1..Len(dispatches) - 1 :
        dispatches[i + 1].at - dispatches[i].at >= minDelay

\* three dispatches of a throttled limiter, one exactly minDelay after its
\* predecessor and one released by a timer that fired late
C1_Witness ==
    /\ minDelay > 0
    /\ Len(dispatches) = 3
    /\ \E i \in 1..2 : dispatches[i + 1].at - dispatches[i].at = minDelay
    /\ \E i \in 1..3 : ~OnTime(i)

\* C2 (FIFO): requests are dispatched in submission order, and pending
\* always holds the requests not yet taken by the drain loop, in submission
\* order.
C2_Fifo ==
    /\ \A i \in 1..Len(dispatches) : dispatches[i].req = i
    /\ \A t \in timers : t.resolve = Len(dispatches) + 1
    /\ \A i \in 1..Len(pending) :
           pending[i] = submitted - Len(pending) + i

\* two requests were queued behind a waiting one, at different times, and
\* all three have been dispatched
C2_Witness ==
    /\ Len(dispatches) = 3
    /\ ~submitLog[2].idle
    /\ submitLog[3].at > submitLog[2].at
    /\ Len(waits) >= 2

\* C3 (no request is lost): when timers fire, every submitted request is
\* eventually resolved and the dispatches eventually number the submissions;
\* at all times the submitted requests are the dispatched ones, the queued
\* ones and the one the drain loop holds.
C3_NoRequestLost ==
    /\ \A k \in Requests : [](submitted >= k => <>(resolved[k] = 1))
    /\ <>[](Len(dispatches) = submitted)
    /\ [](submitted = Len(dispatches) + Len(pending) + Cardinality(timers))

\* every request of a full run has been dispatched, two of them after a wait
\* behind which a further request was queued
C3_Witness ==
    /\ Len(dispatches) = MaxReq
    /\ Len(waits) >= 2
    /\ \E k \in Requests : ~submitLog[k].idle
    /\ \A k \in Requests : resolved[k] = 1

\* C4 (single resolution): no completion handle is resolved more than once;
\* a handle is resolved exactly when its request is dispatched, whether or
\* not its caller withdrew while it was queued or held by the drain loop, and
\* a withdrawal after the dispatch leaves the outcome success.
C4_SingleResolution ==
    \A k \in Requests :
        /\ resolved[k] <= 1
        /\ resolved[k] = 1 <=> k \in Dispatched
        /\ withdrawn[k] = "dispatched" => resolved[k] = 1

\* the caller withdrew while the drain loop held the request it had just
\* removed, and the request was then dispatched, once
C4_Witness ==
    \E k \in Requests :
        /\ withdrawn[k] = "held"
        /\ resolved[k] = 1
        /\ k \in Dispatched
        /\ Len(dispatches) >= 2

\* C5 (one drain loop): however many throttle() calls trigger processQueue,
\* at most one invocation is past the check of the processing flag.
C5_SingleLoop ==
    /\ Cardinality(timers) <= 1
    /\ timers # {} => processing

\* two throttle() calls arrived while a loop was suspended in its wait
C5_Witness ==
    /\ Cardinality(timers) = 1
    /\ Len(pending) = 2
    /\ processing

\* C6 (no artificial delay): a submission that finds the queue empty, no
\* drain loop active and at least minDelay elapsed since lastCallTime is
\* dispatched in that very call, and no timer is started for it.
C6_NoDelayWhenIdle ==
    \A k \in 1..submitted :
        (submitLog[k].idle /\ submitLog[k].elapsed >= minDelay) =>
            /\ k <= Len(dispatches)
            /\ dispatches[k].req = k
            /\ dispatches[k].at = submitLog[k].at
            /\ \A i \in 1..Len(waits) : waits[i].req # k

\* a later request arrived exactly minDelay after the previous dispatch and
\* went through at once
C6_Witness ==
    \E k \in 2..submitted :
        /\ minDelay > 0
        /\ submitLog[k].idle
        /\ submitLog[k].elapsed = minDelay
        /\ k <= Len(dispatches)
        /\ dispatches[k].at = submitLog[k].at

\* C7 (downstream compliance): the downstream calls of two callers admitted
\* one after the other start at least minDelay apart, whatever time each
\* caller takes between its admission and its call.
C7_DownstreamSpacing ==
    \A i \in 1..Len(fetches) - 1 :
        fetches[i + 1].at - fetches[i].at >= minDelay

\* C8 (cancellation takes no slot): a request whose caller withdrew while it
\* was queued is discarded by the drain loop: no wait is started for it and
\* it is not dispatched, so it never sets lastCallTime.
C8_CancelTakesNoSlot ==
    /\ \A i \in 1..Len(dispatches) : withdrawn[dispatches[i].req] # "queued"
    /\ \A i \in 1..Len(waits) : withdrawn[waits[i].req] # "queued"

\* C9 (burst timing): requests j..m submitted at one instant, the first of
\* them to an idle limiter with at least minDelay elapsed, are each
\* dispatched once, all of them by the time the limiter is quiet, and with
\* timers firing on time the k-th of them exactly (k-1)*minDelay after the
\* first.
C9_BurstTiming ==
    \A j \in 1..submitted, m \in 1..submitted :
        ( /\ j <= m
          /\ submitLog[j].idle
          /\ submitLog[j].elapsed >= minDelay
          /\ \A i \in j..m : submitLog[i].at = submitLog[j].at ) =>
        \A i \in j..m :
            /\ resolved[i] <= 1
            /\ (Len(pending) = 0 /\ timers = {}) => i \in Dispatched
            /\ (i <= Len(dispatches) /\ \A h \in j..i : OnTime(h)) =>
                   /\ dispatches[i].req = i
                   /\ dispatches[i].at
                        = submitLog[j].at + (i - j) * minDelay

\* a burst of three to a throttled idle limiter, dispatched at 0, minDelay
\* and 2*minDelay after its submission
C9_Witness ==
    /\ minDelay > 0
    /\ submitted = 3
    /\ submitLog[1].idle /\ submitLog[1].elapsed >= minDelay
    /\ submitLog[3].at = submitLog[1].at
    /\ Len(dispatches) = 3
    /\ \A h \in 1..3 : OnTime(h)
    /\ dispatches[3].at = submitLog[1].at + 2 * minDelay

\* C10 (misconfiguration rejected): no limiter with a negative minDelay
\* exists to accept a submission.
C10_NegativeDelayRejected ==
    submitted > 0 => minDelay >= 0

\* C11 (zero delay): with minDelay = 0 the limiter is an unthrottled FIFO
\* passthrough: the drain loop never suspends and every submission is
\* dispatched in its own throttle() call, in submission order.
C11_ZeroDelayPassthrough ==
    minDelay = 0 =>
        /\ waits = <<>>
        /\ timers = {}
        /\ ~processing
        /\ Len(dispatches) = submitted
        /\ \A k \in 1..submitted :
               /\ dispatches[k].req = k
               /\ dispatches[k].at = submitLog[k].at

\* three submissions to a zero-delay limiter, two of them at the same
\* instant, all dispatched as they came
C11_Witness ==
    /\ minDelay = 0
    /\ Len(dispatches) = 3
    /\ \E k \in 1..2 : submitLog[k].at = submitLog[k + 1].at
    /\ \E k \in 1..2 : submitLog[k].at < submitLog[k + 1].at

Answered == {k \in Requests : results[k] # NoResult}

\* C12 (no feedback): whatever the downstream call returns, the handling of
\* that outcome leaves minDelay, lastCallTime, pending and processing as they
\* were, and the request is neither submitted nor sent downstream again.
C12_NoFeedback ==
    [][results' # results =>
          /\ minDelay' = minDelay
          /\ lastCallTime' = lastCallTime
          /\ pending' = pending
          /\ processing' = processing
          /\ timers' = timers
          /\ submitLog' = submitLog
          /\ fetches' = fetches]_vars

\* a rate-limit answer has been handled while the drain loop was waiting
\* with a further request queued, after lastCallTime had been set
C12_Witness ==
    \E k \in Answered :
        /\ results[k].response.status = 429
        /\ timers # {}
        /\ Len(pending) > 0
        /\ lastCallTime < clock

\* C13 (error classification): every answered invocation has one result; a
\* 429 gives the rate-limit error, any other non-success response an error
\* with its status and its body (when the body can be read), a rejected
\* fetch an error with its cause, and only a success response with data is
\* reported as success.
C13_ErrorClassification ==
    \A k \in Answered :
        LET r == results[k]
            resp == r.response
        IN
        /\ resp \in Responses
        /\ (resp.kind = "response" /\ resp.status = 429) =>
               r.isError /\ r.message = "Rate Limit reached"
        /\ (resp.kind = "response" /\ ~Ok(resp) /\ resp.status # 429) =>
               /\ r.isError
               /\ r.status = resp.status
               /\ resp.body # "unreadable" => r.detail = resp.body
        /\ resp.kind = "rejects" => r.isError /\ r.detail = resp.body
        /\ ~r.isError => resp.kind = "response" /\ Ok(resp)
                            /\ resp.body = "data"

\* a 429, another failure status and a rejected fetch have all been answered
C13_Witness ==
    /\ \E k \in Answered : results[k].response.status = 429
    /\ \E k \in Answered : results[k].response.status = 500
    /\ \E k \in Answered : results[k].response.kind = "rejects"

\* the time at which the i-th dispatch falls when the limiter runs alone with
\* punctual timers: the later of its submission and minDelay after the
\* dispatch before it
SoloTime(i) ==
    LET at == submitLog[dispatches[i].req].at
        free == IF i = 1 THEN minDelay ELSE dispatches[i - 1].at + minDelay
    IN IF at >= free THEN at ELSE free

\* C14 (independent instances): a step of one RateLimiter instance leaves
\* pending, lastCallTime, processing and the timer of the other instance
\* unchanged, in both directions, and each instance keeps the dispatch times
\* it produces on its own: the first its solo schedule, the second its own
\* spacing.
C14_IndependentInstances ==
    /\ [](\A i \in 1..Len(dispatches) :
             OnTime(i) => dispatches[i].at = SoloTime(i))
    /\ [](\A i \in 1..Len(other.dispatches) - 1 :
             other.dispatches[i + 1] - other.dispatches[i] >= other.minDelay)
    /\ [][/\ other' # other =>
               /\ minDelay' = minDelay
               /\ lastCallTime' = lastCallTime
               /\ pending' = pending
               /\ processing' = processing
               /\ timers' = timers
               /\ dispatches' = dispatches
          /\ <<lastCallTime, pending, processing, timers, dispatches>>'
                 # <<lastCallTime, pending, processing, timers, dispatches>>
               => other' = other]_vars

\* both instances have dispatched after a wait of their own length, the
\* second one last, and the first instance is waiting again
C14_Witness ==
    /\ Len(dispatches) >= 2
    /\ Len(other.dispatches) >= 2
    /\ other.minDelay # minDelay
    /\ other.lastCallTime > lastCallTime
    /\ timers # {}

\* requests submitted while the drain loop was running
DuringWait == {k \in 1..submitted : ~submitLog[k].idle}

\* C15 (submissions during a wait): a throttle() call made while the drain
\* loop is suspended in its timed wait completes at once by appending its
\* request to pending; it starts no second loop (flag, timer and
\* lastCallTime stay as they are, nothing is dispatched by the call), and
\* the request is later dispatched by the loop that was already running.
C15_SubmitDuringWait ==
    /\ [][submitLog' # submitLog /\ timers # {} =>
             /\ pending' = Append(pending, submitted + 1)
             /\ timers' = timers
             /\ processing' = processing
             /\ lastCallTime' = lastCallTime
             /\ dispatches' = dispatches]_vars
    /\ \A k \in Requests : (k \in DuringWait) ~> (k \in Dispatched)

\* two requests were submitted during the wait for the first one's
\* successor slot and both have been dispatched by the running loop
C15_Witness ==
    /\ Cardinality(DuringWait) >= 2
    /\ DuringWait \subseteq Dispatched
    /\ ~processing

\* C16 (fresh scheduler): the first request submitted to a newly constructed
\* limiter is dispatched in its own throttle() call, without a timed wait,
\* whatever the clock shows, values below minDelay included.
C16_FreshNoWait ==
    submitted >= 1 =>
        /\ \A i \in 1..Len(waits) : waits[i].req # 1
        /\ Len(dispatches) >= 1
        /\ dispatches[1] = [req |-> 1, at |-> submitLog[1].at,
                            due |-> submitLog[1].at]

\* C17 (monotonic lastCallTime): with a monotonic clock no step lowers
\* lastCallTime, and a step that changes it is a dispatch, which sets it to
\* the time of that dispatch.
C17_LastCallTimeMonotonic ==
    [][/\ lastCallTime' >= lastCallTime
       /\ lastCallTime' # lastCallTime =>
            /\ Len(dispatches') > Len(dispatches)
            /\ lastCallTime' = dispatches'[Len(dispatches')].at]_vars

\* lastCallTime has been raised by a dispatch after a timer that fired late
\* and again by the dispatch after it
C17_Witness ==
    /\ Len(dispatches) >= 2
    /\ ~OnTime(1)
    /\ lastCallTime = dispatches[Len(dispatches)].at
    /\ lastCallTime > dispatches[1].at

\* how often request k stands in pending
Queued(k) == Cardinality({i \in 1..Len(pending) : pending[i] = k})

\* C18 (terminal states are final): every submitted request is in exactly
\* one place: once in pending, or taken by the drain loop and held during its
\* wait, or dispatched once.  A request that has left pending never stands in
\* it again and a dispatched request stays dispatched and is not dispatched
\* again, whether or not its caller has withdrawn.
C18_TerminalFinal ==
    /\ [](\A k \in Requests :
             /\ Queued(k) <= 1
             /\ Count(dispatches, k) <= 1
             /\ Held(k) => Queued(k) = 0 /\ k \notin Dispatched
             /\ k \in Dispatched => Queued(k) = 0
             /\ k <= submitted <=> InQueue(k) \/ Held(k) \/ k \in Dispatched)
    /\ [][\A k \in 1..submitted :
             /\ ~InQueue(k) => ~InQueue(k)'
             /\ Count(dispatches, k) = 1 => Count(dispatches', k) = 1]_vars

\* a caller withdrew a request already dispatched; all three requests left
\* pending, one of them through a wait of the drain loop, and were
\* dispatched once each
C18_Witness ==
    /\ \E k \in Requests : withdrawn[k] = "dispatched"
    /\ Len(dispatches) = 3
    /\ Len(waits) >= 1
    /\ pending = <<>>

\* the place of request k in the dispatches
DispatchOf(k) == CHOOSE i \in 1..Len(dispatches) : dispatches[i].req = k

\* C19 (admission precedes the downstream call): a step of the drain loop,
\* in throttle() or after its timer, starts no downstream call; every
\* downstream call belongs to a request dispatched before, at a time not
\* later than the call; no request has two downstream calls; hence the calls
\* started never outnumber the dispatches.
C19_AdmissionFirst ==
    /\ [](/\ Len(fetches) <= Len(dispatches)
          /\ \A i, j \in 1..Len(fetches) :
                fetches[i].req = fetches[j].req => i = j
          /\ \A i \in 1..Len(fetches) :
                /\ fetches[i].req \in Dispatched
                /\ dispatches[DispatchOf(fetches[i].req)].at <= fetches[i].at)
    /\ [][submitLog' # submitLog \/ dispatches' # dispatches
             \/ timers' # timers \/ pending' # pending
          => fetches' = fetches]_vars

\* two handlers have started their downstream call, one of them some time
\* after its admission, while a third request was dispatched and has not
\* called yet
C19_Witness ==
    /\ Len(fetches) = 2
    /\ Len(dispatches) = 3
    /\ \E i \in 1..2 :
          dispatches[DispatchOf(fetches[i].req)].at < fetches[i].at

\* C20 (no stranded request): between the segments of the limiter, a clear
\* processing flag means pending is empty, and a set flag means the drain
\* loop is suspended in its wait with the timer that resumes it armed; the
\* flag does not stay set for ever.
C20_NoStrandedRequest ==
    /\ [](/\ ~processing => pending = <<>>
          /\ processing => timers # {}
          /\ timers # {} => processing)
    /\ (processing ~> ~processing)

\* a request arrived in the tick in which the loop had dispatched its
\* predecessor and finished; a new loop took it, waited and finished too
C20_Witness ==
    /\ ~processing
    /\ pending = <<>>
    /\ Len(dispatches) = 3
    /\ \E k \in 2..3 :
          /\ submitLog[k].idle
          /\ submitLog[k].at = dispatches[k - 1].at
          /\ \E i \in 1..Len(waits) : waits[i].req = k

\* C21 (bounded wait per dispatch): with a monotonic clock the drain loop
\* suspends at most once for a request, only when now - lastCallTime is
\* below minDelay, and the wait it asks for is minDelay - (now -
\* lastCallTime), which is positive and at most minDelay.
C21_BoundedWait ==
    /\ [](/\ \A i, j \in 1..Len(waits) :
                waits[i].req = waits[j].req => i = j
          /\ \A i \in 1..Len(waits) :
                0 < waits[i].waitTime /\ waits[i].waitTime <= minDelay)
    /\ [][Len(waits') > Len(waits) =>
             LET w == waits'[Len(waits')] IN
             /\ Len(waits') = Len(waits) + 1
             /\ clock - lastCallTime' < minDelay
             /\ w.waitTime = minDelay - (clock - lastCallTime')
             /\ \E t \in timers' :
                   t.resolve = w.req /\ t.due = clock + w.waitTime]_vars

\* the loop has waited the whole of minDelay for one request and less than
\* minDelay for another, and both have been dispatched
C21_Witness ==
    /\ \E i, j \in 1..Len(waits) :
          /\ waits[i].waitTime = minDelay
          /\ waits[j].waitTime < minDelay
          /\ waits[i].req \in Dispatched
          /\ waits[j].req \in Dispatched

\* every timer so far has fired at its due time and none is overdue
Punctual ==
    /\ \A i \in 1..Len(dispatches) : OnTime(i)
    /\ \A t \in timers : clock <= t.due

\* the latest dispatch time of request k: one minDelay for each request that
\* was undispatched when it was submitted, in pending or held by the loop,
\* and one for itself
Deadline(k) == submitLog[k].at + (submitLog[k].ahead + 1) * minDelay

\* C22 (bounded response): as long as the timers fire exactly on time, a
\* request submitted behind k undispatched requests is dispatched no later
\* than (k + 1) * minDelay after its submission, and until then that time
\* has not passed.
C22_BoundedResponse ==
    Punctual =>
        \A k \in 1..submitted :
            /\ k \in Dispatched => dispatches[DispatchOf(k)].at <= Deadline(k)
            /\ k \notin Dispatched => clock <= Deadline(k)

\* with punctual timers the third request, submitted behind one request in
\* pending and one held by the loop, was dispatched exactly at its deadline
C22_Witness ==
    /\ Punctual
    /\ minDelay > 0
    /\ Len(dispatches) = 3
    /\ submitLog[3].ahead = 2
    /\ dispatches[3].req = 3
    /\ dispatches[3].at = Deadline(3)
====
